---- MODULE Spec2Model ----
(***************************************************************************)
(* GhostPeer: the chunked encrypted file-transfer protocol.                *)
(*                                                                         *)
(* Two peers, each with its own FileTransferService (fileTransfer.ts) and  *)
(* its own App onData handler (App.tsx).  A peer's service state is the    *)
(* three maps of the class (activeTransfers, transferCallbacks,            *)
(* receivedChunks) plus the FileTransfer objects the maps and the running  *)
(* async functions refer to (heap).  Every async function is cut at its    *)
(* await points: one action per synchronous block.                         *)
(***************************************************************************)
EXTENDS Integers, Sequences, FiniteSets, TLC

\* FileTransferService.CHUNK_SIZE, scaled from 4*1024 bytes to 2 bytes.
CHUNK_SIZE == 2

\* Bounds of the model.
MaxFileSize == 3
MaxTransfers == 2
MaxInject == 3
MaxChunkIndex == 1
MaxUnknown == 1
MaxTime == 4
MaxNegIndex == 2
MaxConns == 4
MaxSends == 2
MaxCalls == 4
MaxUserCalls == 1

Peers == {"A", "B"}
Other(p) == IF p = "A" THEN "B" ELSE "A"

\* Transfer ids minted by generateTransferId are 1..MaxTransfers; 0 is an id
\* that no peer of the model minted.
AllIds == 0..MaxTransfers

VARIABLES
    heap,               \* [peer -> sequence of FileTransfer objects]; a ref is an index
    activeTransfers,    \* [peer -> Map in insertion order: sequence of [key, ref]]
    transferCallbacks,  \* [peer -> set of ids that have callbacks registered]
    receivedChunks,     \* [peer -> function id -> sparse array of plaintext chunks]
    sendLoops,          \* [peer -> function ref -> frame of the sendFileChunks call]
    handlers,           \* [peer -> sequence of onData handlers suspended at an await]
    chan,               \* [peer -> messages accepted by the channel, not yet delivered to peer]
    downloads,          \* [peer -> sequence of files handed to downloadFile]
    nextId,             \* number of transfer ids minted so far
    injected,           \* number of messages a third peer has sent so far
    last,               \* the operation of the last step and the callbacks it invoked
    conns,              \* PeerService: the DataConnection objects created so far
    connections,        \* PeerService.connections: Map peerId -> DataConnection (index in conns)
    lastSend,           \* PeerService: the last sendData call and what it returned
    connectCalls,       \* PeerService: the invocations of connectToPeer / connectWithFallback and their promises
    timers,             \* PeerService: the retry and fallback callbacks scheduled with setTimeout
    quiet,              \* peers disconnected or closed by the remote side since the user's last connectToPeer
    speedCalc,          \* the last call of calculateTransferSpeed and its result
    cryptoCall          \* the last use of EncryptionService on its own and its result

\* The state of a peer's FileTransferService and of App's handlers.
transferVars == <<heap, activeTransfers, transferCallbacks, receivedChunks, sendLoops,
                  handlers, chan, downloads, nextId, injected, last>>

\* The state of one PeerService (peerService.ts).
peerVars == <<conns, connections, lastSend, connectCalls, timers, quiet>>

\* The records of the calls of the pure functions.
pureVars == <<speedCalc, cryptoCall>>

vars == <<heap, activeTransfers, transferCallbacks, receivedChunks, sendLoops,
          handlers, chan, downloads, nextId, injected, last,
          conns, connections, lastSend, connectCalls, timers, quiet, speedCalc, cryptoCall>>

----------------------------------------------------------------------------
\* Map<string, FileTransfer>: insertion-ordered sequence of [key, ref].

MapHas(map, key) == \E n \in 1..Len(map) : map[n].key = key

\* Map.get: the ref stored under key, 0 for undefined.
MapGet(map, key) ==
    IF MapHas(map, key)
    THEN map[CHOOSE n \in 1..Len(map) : map[n].key = key].ref
    ELSE 0

\* Map.set keeps the position of an existing key and appends a new one.
MapSet(map, key, ref) ==
    IF MapHas(map, key)
    THEN [n \in 1..Len(map) |-> IF map[n].key = key THEN [key |-> key, ref |-> ref] ELSE map[n]]
    ELSE Append(map, [key |-> key, ref |-> ref])

MapDelete(map, key) == SelectSeq(map, LAMBDA e : e.key # key)

MapKeys(map) == {map[n].key : n \in 1..Len(map)}

\* A function with one key removed / set (Map<string, ArrayBuffer[]>).
FnDelete(f, key) == [k \in DOMAIN f \ {key} |-> f[k]]
FnSet(f, key, val) == [k \in DOMAIN f \cup {key} |-> IF k = key THEN val ELSE f[k]]

----------------------------------------------------------------------------
\* Files, keys, encryption and checksums.

\* The content of the file sent as transfer id: byte j (1-based) is 10*id + j.
FileBytes(id, size) == [j \in 1..size |-> 10 * id + j]

\* Mutant of TotalChunks: the quotient is rounded down.
TotalChunks_floor(size) == size \div CHUNK_SIZE

\* Math.ceil(file.size / CHUNK_SIZE)
TotalChunks(size) == (size + CHUNK_SIZE - 1) \div CHUNK_SIZE

Min(a, b) == IF a < b THEN a ELSE b

\* Mutant of readFileChunk: the end offset is taken as inclusive.
readFileChunk_inclusive(bytes, start, end) ==
    SubSeq(bytes, start + 1, IF end + 1 > Len(bytes) THEN Len(bytes) ELSE end + 1)

\* readFileChunk(file, start, end): file.slice(start, end), 0-based, end exclusive.
readFileChunk(bytes, start, end) == SubSeq(bytes, start + 1, end)

\* EncryptionService.KEY_LENGTH and IV_LENGTH, scaled from 32 and 12 bytes.
\* 32 bytes and 2 bytes both leave two bytes in the last base64 group.
KEY_LENGTH == 2
IV_LENGTH == 1

\* A binary string is the sequence of its char codes; a base64 string is the
\* sequence of its digits 0..63, with Base64Pad for '='.
Base64Pad == 64

\* btoa(String.fromCharCode(...bytes)): three bytes become four digits, a
\* last group of one or two bytes is padded.
RECURSIVE btoa(_)
btoa(str) ==
    IF Len(str) = 0 THEN <<>>
    ELSE IF Len(str) = 1
    THEN <<str[1] \div 4, (str[1] % 4) * 16, Base64Pad, Base64Pad>>
    ELSE IF Len(str) = 2
    THEN <<str[1] \div 4, (str[1] % 4) * 16 + str[2] \div 16, (str[2] % 16) * 4, Base64Pad>>
    ELSE <<str[1] \div 4, (str[1] % 4) * 16 + str[2] \div 16,
           (str[2] % 16) * 4 + str[3] \div 64, str[3] % 64>>
         \o btoa(SubSeq(str, 4, Len(str)))

\* atob: four digits become three char codes, fewer for a padded group.
RECURSIVE atob(_)
atob(b64) ==
    IF Len(b64) < 4 THEN <<>>
    ELSE LET c1 == b64[1] * 4 + b64[2] \div 16
             c2 == (b64[2] % 16) * 16 + b64[3] \div 4
             c3 == (b64[3] % 4) * 64 + b64[4]
         IN (IF b64[3] = Base64Pad THEN <<c1>>
             ELSE IF b64[4] = Base64Pad THEN <<c1, c2>>
             ELSE <<c1, c2, c3>>)
            \o atob(SubSeq(b64, 5, Len(b64)))

\* Uint8Array.from(str, c => c.charCodeAt(0))
Uint8ArrayFrom(str) == [n \in 1..Len(str) |-> str[n] % 256]

\* EncryptionService.generateKey: a fresh key per transfer, its raw bytes
\* named by the id.
generateKey(id) == [n \in 1..KEY_LENGTH |-> IF n = 1 THEN id ELSE 255 - id]

\* crypto.getRandomValues(new Uint8Array(IV_LENGTH)): the nonce of the n-th draw.
getRandomValues(n) == [j \in 1..IV_LENGTH |-> (200 + n) % 256]

\* exportKey: the raw key in base64.
exportKey(key) == btoa(key)

\* Mutant of importKey: the char codes are cut to seven bits.
importKey_sevenBits(keyData) == [n \in 1..Len(atob(keyData)) |-> atob(keyData)[n] % 128]

\* importKey: the key whose raw bytes are the decoded string.
importKey(keyData) == Uint8ArrayFrom(atob(keyData))

\* AES-GCM: the ciphertext authenticates the key and the nonce it was made
\* with; iv is the nonce encrypt drew.
encrypt(data, key, iv) ==
    [encrypted |-> [key |-> key, iv |-> iv, plain |-> data], iv |-> iv]

\* decrypt throws (ok = FALSE) when the authentication tag does not match.
decrypt(encryptedData, key, iv) ==
    IF encryptedData.key = key /\ encryptedData.iv = iv
    THEN [ok |-> TRUE, plain |-> encryptedData.plain]
    ELSE [ok |-> FALSE, plain |-> <<>>]

\* SHA-256 as a collision-free digest.
generateChecksum(data) == <<"sha256", data>>
verifyChecksum(data, expectedChecksum) == generateChecksum(data) = expectedChecksum

\* (n / totalChunks) * 100 in IEEE arithmetic, kept as an integer percentage;
\* a division by zero gives Infinity.
Infinity == 1000000
Percent(n, totalChunks) ==
    IF totalChunks = 0 THEN Infinity ELSE (n * 100) \div totalChunks

----------------------------------------------------------------------------
\* The state of one peer's FileTransferService, threaded through the methods.
\* calls collects the callback invocations of the running step.

Svc(p) == [heap |-> heap[p], active |-> activeTransfers[p],
           callbacks |-> transferCallbacks[p], chunks |-> receivedChunks[p],
           calls |-> <<>>]

\* this.transferCallbacks.get(transferId)?.cb(transfer)
Invoke(S, transferId, cb, ref) ==
    IF transferId \in S.callbacks
    THEN [S EXCEPT !.calls = Append(@, [cb |-> cb, id |-> transferId, ref |-> ref])]
    ELSE S

\* failedBy is a ghost field: the error handleTransferError was called with.
handleTransferError(S, transferId, error) ==
    LET r == MapGet(S.active, transferId) IN
    IF r = 0 THEN S
    ELSE Invoke([S EXCEPT !.heap[r].status = "failed", !.heap[r].failedBy = error],
                transferId, "onError", r)

\* Mutant of pauseTransfer: the status is not tested.
pauseTransfer_anyStatus(S, transferId) ==
    LET r == MapGet(S.active, transferId) IN
    IF r # 0
    THEN [S EXCEPT !.heap[r].status = "paused"]
    ELSE S

pauseTransfer(S, transferId) ==
    LET r == MapGet(S.active, transferId) IN
    IF r # 0 /\ S.heap[r].status = "transferring"
    THEN [S EXCEPT !.heap[r].status = "paused"]
    ELSE S

\* Mutant of resumeTransfer: the status is not tested.
resumeTransfer_anyStatus(S, transferId) ==
    LET r == MapGet(S.active, transferId) IN
    IF r # 0
    THEN [S EXCEPT !.heap[r].status = "transferring"]
    ELSE S

resumeTransfer(S, transferId) ==
    LET r == MapGet(S.active, transferId) IN
    IF r # 0 /\ S.heap[r].status = "paused"
    THEN [S EXCEPT !.heap[r].status = "transferring"]
    ELSE S

cancelTransfer(S, transferId) ==
    LET r == MapGet(S.active, transferId) IN
    IF r # 0
    THEN [S EXCEPT !.heap[r].status = "failed",
                   !.active = MapDelete(@, transferId),
                   !.callbacks = @ \ {transferId}]
    ELSE S

registerIncomingTransfer(S, transfer) ==
    LET r == Len(S.heap) + 1 IN
    [S EXCEPT !.heap = Append(@, transfer),
              !.active = MapSet(@, transfer.id, r),
              !.callbacks = @ \cup {transfer.id}]

\* Mutant of startFileTransfer: the transfer is created transferring.
startFileTransfer_transferring(S, transferId, size) ==
    LET r == Len(S.heap) + 1
        transfer == [id |-> transferId,
                     bytes |-> FileBytes(transferId, size),
                     size |-> size,
                     status |-> "transferring",
                     progress |-> 0,
                     failedBy |-> "",
                     encryptionKey |-> generateKey(transferId),
                     checksum |-> generateChecksum(FileBytes(transferId, size))]
    IN [S EXCEPT !.heap = Append(@, transfer),
                 !.active = MapSet(@, transferId, r),
                 !.callbacks = @ \cup {transferId}]

startFileTransfer(S, transferId, size) ==
    LET r == Len(S.heap) + 1
        transfer == [id |-> transferId,
                     bytes |-> FileBytes(transferId, size),
                     size |-> size,
                     status |-> "pending",
                     progress |-> 0,
                     failedBy |-> "",
                     encryptionKey |-> generateKey(transferId),
                     checksum |-> generateChecksum(FileBytes(transferId, size))]
    IN [S EXCEPT !.heap = Append(@, transfer),
                 !.active = MapSet(@, transferId, r),
                 !.callbacks = @ \cup {transferId}]

----------------------------------------------------------------------------
\* Writing a peer's service state back.  last names the operation of the
\* step: the method, the transfer id it was called with, the transfer it
\* resolved to and the callbacks it invoked; late marks the processing of a
\* file-chunk that arrived after its transfer had failed on a chunk.

Op(name, id, ref) == [op |-> name, id |-> id, ref |-> ref, late |-> FALSE]

Commit(p, S, op) ==
    /\ heap' = [heap EXCEPT ![p] = S.heap]
    /\ activeTransfers' = [activeTransfers EXCEPT ![p] = S.active]
    /\ transferCallbacks' = [transferCallbacks EXCEPT ![p] = S.callbacks]
    /\ receivedChunks' = [receivedChunks EXCEPT ![p] = S.chunks]
    /\ last' = [op |-> op.op, peer |-> p, id |-> op.id, ref |-> op.ref,
                late |-> op.late, calls |-> S.calls]
    /\ UNCHANGED <<peerVars, pureVars>>

Init ==
    /\ heap = [p \in Peers |-> <<>>]
    /\ activeTransfers = [p \in Peers |-> <<>>]
    /\ transferCallbacks = [p \in Peers |-> {}]
    /\ receivedChunks = [p \in Peers |-> <<>>]
    /\ sendLoops = [p \in Peers |-> <<>>]
    /\ handlers = [p \in Peers |-> <<>>]
    /\ chan = [p \in Peers |-> <<>>]
    /\ downloads = [p \in Peers |-> <<>>]
    /\ nextId = 0
    /\ injected = 0
    /\ last = [op |-> "init", peer |-> "A", id |-> 0, ref |-> 0, late |-> FALSE,
               calls |-> <<>>]
    /\ conns = <<>>
    /\ connections = <<>>
    /\ lastSend = [n |-> 0, peerId |-> "", data |-> 0, result |-> FALSE]
    /\ connectCalls = <<>>
    /\ timers = <<>>
    /\ quiet = {}
    /\ speedCalc = [caller |-> "", startTime |-> 0, now |-> 0,
                    bytesTransferred |-> 0, speed |-> 0]
    /\ cryptoCall = [op |-> "", key |-> <<>>, other |-> <<>>, data |-> <<>>, iv |-> <<>>,
                     result |-> [ok |-> FALSE, plain |-> <<>>]]

----------------------------------------------------------------------------
\* The sender: startFileTransfer and the async function sendFileChunks.

\* startFileTransfer awaits generateKey and calculateFileChecksum before it
\* touches the maps, so the registration is one step.
StartFileTransfer(p, size) ==
    /\ nextId < MaxTransfers
    /\ nextId' = nextId + 1
    /\ Commit(p, startFileTransfer(Svc(p), nextId + 1, size),
              Op("startFileTransfer", nextId + 1, Len(heap[p]) + 1))
    /\ UNCHANGED <<sendLoops, handlers, chan, downloads, injected>>

\* The wire messages built by sendFileChunks.
Metadata(transferId, t, totalChunks) ==
    [type |-> "transfer-start", transferId |-> transferId, fileSize |-> t.size,
     totalChunks |-> totalChunks, encryptionKey |-> exportKey(t.encryptionKey),
     checksum |-> t.checksum]

\* Mutant of ChunkMessage: the chunks are numbered from the end of the file.
ChunkMessage_descending(transferId, t, totalChunks, i) ==
    LET start == i * CHUNK_SIZE
        end == Min(start + CHUNK_SIZE, t.size)
        chunkData == readFileChunk(t.bytes, start, end)
    IN [type |-> "file-chunk", transferId |-> transferId,
        chunkIndex |-> totalChunks - 1 - i,
        encryptedData |-> encrypt(chunkData, t.encryptionKey, getRandomValues(i)).encrypted,
        iv |-> btoa(encrypt(chunkData, t.encryptionKey, getRandomValues(i)).iv),
        checksum |-> generateChecksum(chunkData),
        isLastChunk |-> (i = totalChunks - 1)]

ChunkMessage(transferId, t, totalChunks, i) ==
    LET start == i * CHUNK_SIZE
        end == Min(start + CHUNK_SIZE, t.size)
        chunkData == readFileChunk(t.bytes, start, end)
    IN [type |-> "file-chunk", transferId |-> transferId, chunkIndex |-> i,
        encryptedData |-> encrypt(chunkData, t.encryptionKey, getRandomValues(i)).encrypted,
        iv |-> btoa(encrypt(chunkData, t.encryptionKey, getRandomValues(i)).iv),
        checksum |-> generateChecksum(chunkData),
        isLastChunk |-> (i = totalChunks - 1)]

\* Mutant of LoopHead: the body has no pause check.
LoopHead_ignoresPause(S, L) ==
    IF L.i < L.totalChunks
    THEN [svc |-> S, loop |-> [L EXCEPT !.pc = "chunk"]]
    ELSE [svc |-> IF S.heap[L.transfer].status = "transferring"
                  THEN Invoke([S EXCEPT !.heap[L.transfer].status = "completed"],
                              L.transferId, "onComplete", L.transfer)
                  ELSE S,
          loop |-> [L EXCEPT !.pc = "done"]]

\* The loop test `i < totalChunks`, the pause check at the top of the body
\* and, when the loop is left, the completion check after it.
LoopHead(S, L) ==
    IF L.i < L.totalChunks /\ S.heap[L.transfer].status # "paused"
    THEN [svc |-> S, loop |-> [L EXCEPT !.pc = "chunk"]]
    ELSE [svc |-> IF S.heap[L.transfer].status = "transferring"
                  THEN Invoke([S EXCEPT !.heap[L.transfer].status = "completed"],
                              L.transferId, "onComplete", L.transfer)
                  ELSE S,
          loop |-> [L EXCEPT !.pc = "done"]]

\* sendFileChunks up to `await EncryptionService.exportKey`.  App calls it
\* once for each transfer, right after startFileTransfer has resolved.
SendFileChunks(p, transferId) ==
    LET S == Svc(p)
        r == MapGet(S.active, transferId)
    IN /\ r # 0
       /\ r \notin DOMAIN sendLoops[p]
       /\ S.heap[r].status = "pending"
       /\ sendLoops' = [sendLoops EXCEPT ![p] = FnSet(@, r,
              [pc |-> "exportKey", transferId |-> transferId, transfer |-> r,
               totalChunks |-> TotalChunks(S.heap[r].size), sentChunks |-> 0,
               i |-> 0, log |-> <<>>, results |-> <<>>, cancelAt |-> -1])]
       /\ Commit(p, [S EXCEPT !.heap[r].status = "transferring"],
                 Op("sendFileChunks", transferId, r))
       /\ UNCHANGED <<handlers, chan, downloads, nextId, injected>>

\* From the resolution of exportKey to the first await of the loop body:
\* the transfer-start message is handed to sendDataFunction, which returns ok.
SendMetadata(p, r, ok) ==
    /\ r \in DOMAIN sendLoops[p]
    /\ sendLoops[p][r].pc = "exportKey"
    /\ LET L == sendLoops[p][r]
           S == Svc(p)
           msg == Metadata(L.transferId, S.heap[r], L.totalChunks)
           L1 == [L EXCEPT !.log = Append(@, msg), !.results = Append(@, ok)]
           res == IF ok
                  THEN LoopHead(S, L1)
                  ELSE [svc |-> handleTransferError(S, L.transferId, "send"),
                        loop |-> [L1 EXCEPT !.pc = "done"]]
       IN /\ sendLoops' = [sendLoops EXCEPT ![p][r] = res.loop]
          /\ chan' = IF ok THEN [chan EXCEPT ![Other(p)] = Append(@, msg)] ELSE chan
          /\ Commit(p, res.svc, Op("sendMetadata", L.transferId, r))
    /\ UNCHANGED <<handlers, downloads, nextId, injected>>

\* One pass of the loop body from the resolution of its awaits (readFileChunk,
\* encrypt, generateChecksum touch no shared state between them) through the
\* send, the progress update and the next loop test.
SendChunk(p, r, ok) ==
    /\ r \in DOMAIN sendLoops[p]
    /\ sendLoops[p][r].pc = "chunk"
    /\ LET L == sendLoops[p][r]
           S == Svc(p)
           msg == ChunkMessage(L.transferId, S.heap[r], L.totalChunks, L.i)
           L1 == [L EXCEPT !.log = Append(@, msg), !.results = Append(@, ok)]
           L2 == [L1 EXCEPT !.sentChunks = @ + 1, !.i = @ + 1]
           S2 == Invoke([S EXCEPT !.heap[r].progress =
                                     Percent(L2.sentChunks, L.totalChunks)],
                        L.transferId, "onProgress", r)
           res == IF ok
                  THEN LoopHead(S2, L2)
                  ELSE [svc |-> handleTransferError(S, L.transferId, "send"),
                        loop |-> [L1 EXCEPT !.pc = "done"]]
       IN /\ sendLoops' = [sendLoops EXCEPT ![p][r] = res.loop]
          /\ chan' = IF ok THEN [chan EXCEPT ![Other(p)] = Append(@, msg)] ELSE chan
          /\ Commit(p, res.svc, Op("sendChunk", L.transferId, r))
    /\ UNCHANGED <<handlers, downloads, nextId, injected>>

----------------------------------------------------------------------------
\* The controls of TransferProgress, wired by App to the service.

PauseTransfer(p, transferId) ==
    /\ pauseTransfer(Svc(p), transferId) # Svc(p)
    /\ Commit(p, pauseTransfer(Svc(p), transferId),
              Op("pauseTransfer", transferId, MapGet(activeTransfers[p], transferId)))
    /\ UNCHANGED <<sendLoops, handlers, chan, downloads, nextId, injected>>

ResumeTransfer(p, transferId) ==
    /\ resumeTransfer(Svc(p), transferId) # Svc(p)
    /\ Commit(p, resumeTransfer(Svc(p), transferId),
              Op("resumeTransfer", transferId, MapGet(activeTransfers[p], transferId)))
    /\ UNCHANGED <<sendLoops, handlers, chan, downloads, nextId, injected>>

\* cancelAt records, for a send loop still running, how many file-chunk
\* messages it had handed to sendDataFunction when its transfer was cancelled.
MarkCancel(L) ==
    IF L.pc # "done" /\ L.cancelAt = -1
    THEN [L EXCEPT !.cancelAt =
             Cardinality({n \in 1..Len(L.log) : L.log[n].type = "file-chunk"})]
    ELSE L

CancelTransfer(p, transferId) ==
    LET r == MapGet(activeTransfers[p], transferId) IN
    /\ r # 0
    /\ sendLoops' = [sendLoops EXCEPT ![p] =
          [k \in DOMAIN sendLoops[p] |->
              IF k = r THEN MarkCancel(sendLoops[p][k]) ELSE sendLoops[p][k]]]
    /\ Commit(p, cancelTransfer(Svc(p), transferId), Op("cancelTransfer", transferId, r))
    /\ UNCHANGED <<handlers, chan, downloads, nextId, injected>>

----------------------------------------------------------------------------
\* The receiver: App's onData handler and handleIncomingChunk.

\* ArrayBuffer[] with holes: a sequence of cells, index 0 of the array first.
Hole == [present |-> FALSE, bytes |-> <<>>]
Cell(data) == [present |-> TRUE, bytes |-> data]

\* chunks[chunkIndex] = data: an index beyond the length leaves holes.
ArraySet(chunks, chunkIndex, data) ==
    [n \in 1..(IF chunkIndex + 1 > Len(chunks) THEN chunkIndex + 1 ELSE Len(chunks)) |->
        IF n = chunkIndex + 1 THEN Cell(data)
        ELSE IF n <= Len(chunks) THEN chunks[n] ELSE Hole]

RECURSIVE Concat(_)
Concat(chunks) ==
    IF chunks = <<>> THEN <<>> ELSE chunks[1].bytes \o Concat(Tail(chunks))

\* reconstructFile: throws when the transfer has no array; reduce skips the
\* holes, the for-of loop visits a hole as undefined and throws on
\* chunk.byteLength.
reconstructFile(S, transferId) ==
    IF transferId \notin DOMAIN S.chunks
    THEN [ok |-> FALSE, bytes |-> <<>>]
    ELSE IF \E n \in 1..Len(S.chunks[transferId]) : ~S.chunks[transferId][n].present
    THEN [ok |-> FALSE, bytes |-> <<>>]
    ELSE [ok |-> TRUE, bytes |-> Concat(S.chunks[transferId])]

\* Mutant of FindTransferring: the first transfer of the map, whatever its status.
FindTransferring_anyStatus(S) == IF Len(S.active) > 0 THEN 1 ELSE 0

\* allTransfers.find(t => t.status === 'transferring'): the position in the
\* map of the first such transfer, 0 for undefined.
FindTransferring(S) ==
    IF \E n \in 1..Len(S.active) : S.heap[S.active[n].ref].status = "transferring"
    THEN CHOOSE n \in 1..Len(S.active) :
            /\ S.heap[S.active[n].ref].status = "transferring"
            /\ \A m \in 1..(n - 1) : S.heap[S.active[m].ref].status # "transferring"
    ELSE 0

\* Mutant of ResolveTransfer: the fallback leaves the old key in the map.
ResolveTransfer_keepsOldKey(S, transferId) ==
    LET r == MapGet(S.active, transferId)
        n == FindTransferring(S)
    IN IF r # 0 THEN [svc |-> S, transfer |-> r, fallback |-> FALSE]
       ELSE IF n = 0 THEN [svc |-> S, transfer |-> 0, fallback |-> FALSE]
       ELSE LET f == S.active[n].ref IN
            [svc |-> [S EXCEPT !.active = MapSet(@, transferId, f),
                               !.heap[f].id = transferId],
             transfer |-> f, fallback |-> TRUE]

\* handleIncomingChunk up to `await EncryptionService.decrypt`: the lookup
\* and the fallback that re-keys a transferring transfer.  transfer = 0 means
\* the method returned.
ResolveTransfer(S, transferId) ==
    LET r == MapGet(S.active, transferId)
        n == FindTransferring(S)
    IN IF r # 0 THEN [svc |-> S, transfer |-> r, fallback |-> FALSE]
       ELSE IF n = 0 THEN [svc |-> S, transfer |-> 0, fallback |-> FALSE]
       ELSE LET f == S.active[n].ref IN
            [svc |-> [S EXCEPT !.active = MapSet(MapDelete(@, S.heap[f].id), transferId, f),
                               !.heap[f].id = transferId],
             transfer |-> f, fallback |-> TRUE]

FailedOnChunk(t) == t.status = "failed" /\ t.failedBy \in {"decrypt", "checksum"}

\* App's onData callback up to its first await.  The ghost fields of a
\* suspended handler: fallback (the transfer was found by the fallback) and
\* late (the transfer had already failed on a chunk when the message came).
OnData(p, msg, opname) ==
    IF msg.type = "transfer-start"
    THEN /\ handlers' = [handlers EXCEPT ![p] = Append(@,
                [kind |-> "start", pc |-> "importKey", msg |-> msg, transfer |-> 0,
                 fallback |-> FALSE, late |-> FALSE, result |-> [ok |-> FALSE, bytes |-> <<>>]])]
         /\ Commit(p, Svc(p), Op(opname \o ":transfer-start", msg.transferId, 0))
    ELSE LET res == ResolveTransfer(Svc(p), msg.transferId) IN
         /\ handlers' = [handlers EXCEPT ![p] =
                IF res.transfer = 0 THEN @
                ELSE Append(@, [kind |-> "chunk", pc |-> "decrypt", msg |-> msg,
                                transfer |-> res.transfer, fallback |-> res.fallback,
                                late |-> FailedOnChunk(res.svc.heap[res.transfer]),
                                result |-> [ok |-> FALSE, bytes |-> <<>>]])]
         /\ Commit(p, res.svc,
                   Op(opname \o (IF res.transfer = 0 THEN ":orphan-chunk" ELSE ":file-chunk"),
                      msg.transferId, res.transfer))

\* The channel delivers the next message to p.
Deliver(p) ==
    /\ chan[p] # <<>>
    /\ chan' = [chan EXCEPT ![p] = Tail(@)]
    /\ OnData(p, Head(chan[p]), "deliver")
    /\ UNCHANGED <<sendLoops, downloads, nextId, injected>>

\* No more handlers are ever suspended than messages are sent.
HandlerSlots == 1..(MaxInject + MaxTransfers * (1 + TotalChunks(MaxFileSize)))

RemoveAt(seq, h) == [n \in 1..(Len(seq) - 1) |-> IF n < h THEN seq[n] ELSE seq[n + 1]]

\* transfer-start: from the resolution of importKey to the end of the handler.
ImportKeyDone(p, h) ==
    /\ h \in 1..Len(handlers[p])
    /\ handlers[p][h].kind = "start"
    /\ LET msg == handlers[p][h].msg
           transfer == [id |-> msg.transferId,
                        bytes |-> <<>>,
                        size |-> msg.fileSize,
                        status |-> "transferring",
                        progress |-> 0,
                        failedBy |-> "",
                        encryptionKey |-> importKey(msg.encryptionKey),
                        checksum |-> msg.checksum]
       IN Commit(p, registerIncomingTransfer(Svc(p), transfer),
                 Op("registerIncomingTransfer", msg.transferId, Len(heap[p]) + 1))
    /\ handlers' = [handlers EXCEPT ![p] = RemoveAt(@, h)]
    /\ UNCHANGED <<sendLoops, chan, downloads, nextId, injected>>

\* file-chunk: from the resolution of decrypt and verifyChecksum (no shared
\* state is touched between the two) to `await this.reconstructFile` or to
\* the end of the method.
ChunkDecrypted(p, h) ==
    /\ h \in 1..Len(handlers[p])
    /\ handlers[p][h].kind = "chunk"
    /\ handlers[p][h].pc = "decrypt"
    /\ LET H == handlers[p][h]
           msg == H.msg
           S == Svc(p)
           t == S.heap[H.transfer]
           dec == decrypt(msg.encryptedData, t.encryptionKey, Uint8ArrayFrom(atob(msg.iv)))
           isValid == verifyChecksum(dec.plain, msg.checksum)
           chunks == IF msg.transferId \in DOMAIN S.chunks
                     THEN S.chunks[msg.transferId] ELSE <<>>
           S1 == [S EXCEPT !.chunks = FnSet(@, msg.transferId,
                                            ArraySet(chunks, msg.chunkIndex, dec.plain)),
                           !.heap[H.transfer].progress =
                                Percent(msg.chunkIndex + 1, TotalChunks(t.size))]
           S2 == Invoke(S1, msg.transferId, "onProgress", H.transfer)
       IN IF ~dec.ok
          THEN /\ Commit(p, handleTransferError(S, msg.transferId, "decrypt"),
                         [Op("chunk:decrypt-failed", msg.transferId, H.transfer)
                            EXCEPT !.late = H.late])
               /\ handlers' = [handlers EXCEPT ![p] = RemoveAt(@, h)]
          ELSE IF ~isValid
          THEN /\ Commit(p, handleTransferError(S, msg.transferId, "checksum"),
                         [Op("chunk:checksum-failed", msg.transferId, H.transfer)
                            EXCEPT !.late = H.late])
               /\ handlers' = [handlers EXCEPT ![p] = RemoveAt(@, h)]
          ELSE /\ Commit(p, S2, [Op("chunk:stored", msg.transferId, H.transfer)
                                     EXCEPT !.late = H.late])
               /\ handlers' = [handlers EXCEPT ![p] =
                     IF msg.isLastChunk
                     THEN [@ EXCEPT ![h].pc = "reconstruct",
                                    ![h].result = reconstructFile(S2, msg.transferId)]
                     ELSE RemoveAt(@, h)]
    /\ UNCHANGED <<sendLoops, chan, downloads, nextId, injected>>

\* file-chunk: from the resolution of reconstructFile to the end of the method.
Reconstructed(p, h) ==
    /\ h \in 1..Len(handlers[p])
    /\ handlers[p][h].kind = "chunk"
    /\ handlers[p][h].pc = "reconstruct"
    /\ LET H == handlers[p][h]
           transferId == H.msg.transferId
           S == Svc(p)
           S1 == Invoke([S EXCEPT !.heap[H.transfer].status = "completed"],
                        transferId, "onComplete", H.transfer)
           S2 == [S1 EXCEPT !.chunks = FnDelete(@, transferId)]
       IN IF H.result.ok
          THEN /\ downloads' = [downloads EXCEPT ![p] =
                      Append(@, [ref |-> H.transfer, bytes |-> H.result.bytes])]
               /\ Commit(p, S2, [Op("chunk:completed", transferId, H.transfer)
                                     EXCEPT !.late = H.late])
          ELSE /\ downloads' = downloads
               /\ Commit(p, handleTransferError(S, transferId, "reconstruct"),
                         [Op("chunk:reconstruct-failed", transferId, H.transfer)
                            EXCEPT !.late = H.late])
    /\ handlers' = [handlers EXCEPT ![p] = RemoveAt(@, h)]
    /\ UNCHANGED <<sendLoops, chan, nextId, injected>>

\* The messages another connected peer may send: a transfer-start for any
\* minted id and file size, and a file-chunk with any transfer id, index,
\* key, checksum and isLastChunk flag.
RemoteData(transferId, chunkIndex) ==
    readFileChunk(FileBytes(transferId, MaxFileSize), chunkIndex * CHUNK_SIZE,
                  Min(chunkIndex * CHUNK_SIZE + CHUNK_SIZE, MaxFileSize))

InjectedStarts ==
    {[type |-> "transfer-start", transferId |-> id, fileSize |-> size,
      totalChunks |-> TotalChunks(size), encryptionKey |-> exportKey(generateKey(id)),
      checksum |-> generateChecksum(FileBytes(id, size))] :
        id \in 1..MaxTransfers, size \in 0..MaxFileSize}

InjectedChunks ==
    {[type |-> "file-chunk", transferId |-> id, chunkIndex |-> i,
      encryptedData |-> encrypt(RemoteData(id, i), generateKey(k), getRandomValues(i)).encrypted,
      iv |-> btoa(getRandomValues(i)),
      checksum |-> IF good THEN generateChecksum(RemoteData(id, i))
                   ELSE generateChecksum(<<0>>),
      isLastChunk |-> isLast] :
        id \in AllIds, i \in 0..MaxChunkIndex, k \in 1..MaxTransfers,
        good \in BOOLEAN, isLast \in BOOLEAN}

Inject(p, msg) ==
    /\ injected < MaxInject
    /\ injected' = injected + 1
    /\ OnData(p, msg, "inject")
    /\ UNCHANGED <<sendLoops, chan, downloads, nextId>>

----------------------------------------------------------------------------
Next ==
    \/ \E p \in Peers, size \in 0..MaxFileSize : StartFileTransfer(p, size)
    \/ \E p \in Peers, id \in AllIds : SendFileChunks(p, id)
    \/ \E p \in Peers, r \in 1..MaxTransfers, ok \in BOOLEAN : SendMetadata(p, r, ok)
    \/ \E p \in Peers, r \in 1..MaxTransfers, ok \in BOOLEAN : SendChunk(p, r, ok)
    \/ \E p \in Peers, id \in AllIds : PauseTransfer(p, id)
    \/ \E p \in Peers, id \in AllIds : ResumeTransfer(p, id)
    \/ \E p \in Peers, id \in AllIds : CancelTransfer(p, id)
    \/ \E p \in Peers : Deliver(p)
    \/ \E p \in Peers, h \in HandlerSlots : ImportKeyDone(p, h)
    \/ \E p \in Peers, h \in HandlerSlots : ChunkDecrypted(p, h)
    \/ \E p \in Peers, h \in HandlerSlots : Reconstructed(p, h)
    \/ \E p \in Peers, msg \in InjectedStarts \cup InjectedChunks : Inject(p, msg)

Spec == Init /\ [][Next]_vars

\* The sending peer alone: its transfers, its send loops and its controls.
NextSend ==
    \/ \E size \in 0..MaxFileSize : StartFileTransfer("A", size)
    \/ \E id \in AllIds : SendFileChunks("A", id)
    \/ \E r \in 1..MaxTransfers, ok \in BOOLEAN : SendMetadata("A", r, ok)
    \/ \E r \in 1..MaxTransfers, ok \in BOOLEAN : SendChunk("A", r, ok)
    \/ \E id \in AllIds : PauseTransfer("A", id)
    \/ \E id \in AllIds : ResumeTransfer("A", id)
    \/ \E id \in AllIds : CancelTransfer("A", id)

SpecSend == Init /\ [][NextSend]_vars

\* An honest sender A and the receiver B over the ordered, reliable channel:
\* sendDataFunction accepts every message and nobody touches the controls.
NextE2E ==
    \/ \E size \in 0..MaxFileSize : StartFileTransfer("A", size)
    \/ \E id \in AllIds : SendFileChunks("A", id)
    \/ \E r \in 1..MaxTransfers : SendMetadata("A", r, TRUE)
    \/ \E r \in 1..MaxTransfers : SendChunk("A", r, TRUE)
    \/ Deliver("B")
    \/ \E h \in HandlerSlots : ImportKeyDone("B", h)
    \/ \E h \in HandlerSlots : ChunkDecrypted("B", h)
    \/ \E h \in HandlerSlots : Reconstructed("B", h)

SpecE2E == Init /\ [][NextE2E]_vars

\* The receiving peer alone, with any remote peers: its onData handlers and
\* its controls.
NextRecv ==
    \/ \E msg \in InjectedStarts \cup InjectedChunks : Inject("B", msg)
    \/ \E h \in HandlerSlots : ImportKeyDone("B", h)
    \/ \E h \in HandlerSlots : ChunkDecrypted("B", h)
    \/ \E h \in HandlerSlots : Reconstructed("B", h)
    \/ \E id \in AllIds : PauseTransfer("B", id)
    \/ \E id \in AllIds : ResumeTransfer("B", id)
    \/ \E id \in AllIds : CancelTransfer("B", id)

SpecRecv == Init /\ [][NextRecv]_vars

\* The sending peer with a sendDataFunction that accepts every message and a
\* user who pauses and resumes but never cancels.  The event loop runs every
\* continuation that is ready: a call of sendFileChunks that App has queued
\* and a send loop whose await has resolved are not postponed for ever.
NextResume ==
    \/ \E size \in 0..MaxFileSize : StartFileTransfer("A", size)
    \/ \E id \in AllIds : SendFileChunks("A", id)
    \/ \E r \in 1..MaxTransfers : SendMetadata("A", r, TRUE)
    \/ \E r \in 1..MaxTransfers : SendChunk("A", r, TRUE)
    \/ \E id \in AllIds : PauseTransfer("A", id)
    \/ \E id \in AllIds : ResumeTransfer("A", id)

SpecResume ==
    /\ Init
    /\ [][NextResume]_vars
    /\ \A id \in AllIds : WF_vars(SendFileChunks("A", id))
    /\ \A r \in 1..MaxTransfers :
          WF_vars(SendMetadata("A", r, TRUE) \/ SendChunk("A", r, TRUE))

\* The sending peer with a sendDataFunction that accepts every message and a
\* user who touches no control; several transfers may be under way at once.
\* The event loop is fair as in SpecResume.
NextSendAll ==
    \/ \E size \in 0..MaxFileSize : StartFileTransfer("A", size)
    \/ \E id \in AllIds : SendFileChunks("A", id)
    \/ \E r \in 1..MaxTransfers : SendMetadata("A", r, TRUE)
    \/ \E r \in 1..MaxTransfers : SendChunk("A", r, TRUE)

SpecSendAll ==
    /\ Init
    /\ [][NextSendAll]_vars
    /\ \A id \in AllIds : WF_vars(SendFileChunks("A", id))
    /\ \A r \in 1..MaxTransfers :
          WF_vars(SendMetadata("A", r, TRUE) \/ SendChunk("A", r, TRUE))

\* A peer that sends while another connected peer sends it file-chunk
\* messages for a transfer it does not know (id 0): App gives the one
\* FileTransferService both roles.
UnknownChunks == {msg \in InjectedChunks : msg.transferId = 0 /\ msg.chunkIndex = 0}

InjectUnknown(p, msg) == injected < MaxUnknown /\ Inject(p, msg)

NextDuplex ==
    \/ \E size \in 0..MaxFileSize : StartFileTransfer("A", size)
    \/ \E id \in AllIds : SendFileChunks("A", id)
    \/ \E r \in 1..MaxTransfers, ok \in BOOLEAN : SendMetadata("A", r, ok)
    \/ \E r \in 1..MaxTransfers, ok \in BOOLEAN : SendChunk("A", r, ok)
    \/ \E msg \in UnknownChunks : InjectUnknown("A", msg)
    \/ \E h \in HandlerSlots : ChunkDecrypted("A", h)
    \/ \E h \in HandlerSlots : Reconstructed("A", h)

SpecDuplex == Init /\ [][NextDuplex]_vars

----------------------------------------------------------------------------
\* Transfer speed.  Date.now() is a count of milliseconds that the system
\* clock may set back; startTime is the Date.now() of the transfer's creation.

Times == 0..MaxTime

\* The chunkIndex a file-chunk message may carry: any number.
ChunkIndexes == (0 - MaxNegIndex)..MaxChunkIndex

\* calculateTransferSpeed: bytesTransferred / ((now - startTime) / 1000) when
\* the elapsed time is positive, else 0; the quotient is kept as an integer
\* number of bytes per second, rounded down.
calculateTransferSpeed(startTime, now, bytesTransferred) ==
    IF now - startTime > 0
    THEN (bytesTransferred * 1000) \div (now - startTime)
    ELSE 0

SpeedCall(caller, startTime, now, bytesTransferred) ==
    /\ speedCalc' = [caller |-> caller, startTime |-> startTime, now |-> now,
                     bytesTransferred |-> bytesTransferred,
                     speed |-> calculateTransferSpeed(startTime, now, bytesTransferred)]
    /\ UNCHANGED <<transferVars, peerVars, cryptoCall>>

\* sendFileChunks: transfer.speed after sentChunks chunks have been sent.
SenderSpeed(startTime, now, sentChunks) ==
    SpeedCall("sendFileChunks", startTime, now, sentChunks * CHUNK_SIZE)

\* handleIncomingChunk: transfer.speed after the chunk at chunkIndex is stored.
ReceiverSpeed(startTime, now, chunkIndex) ==
    SpeedCall("handleIncomingChunk", startTime, now, (chunkIndex + 1) * CHUNK_SIZE)

NextSpeed ==
    \/ \E startTime \in Times, now \in Times, sentChunks \in 1..TotalChunks(MaxFileSize) :
          SenderSpeed(startTime, now, sentChunks)
    \/ \E startTime \in Times, now \in Times, chunkIndex \in ChunkIndexes :
          ReceiverSpeed(startTime, now, chunkIndex)

SpecSpeed == Init /\ [][NextSpeed]_vars

----------------------------------------------------------------------------
\* EncryptionService on its own: keys, plaintexts and nonces of any bytes.

ByteSamples == {0, 1, 127, 128, 255}
CryptoKeys == [1..KEY_LENGTH -> ByteSamples]
Nonces == [1..IV_LENGTH -> ByteSamples]
Plaintexts == UNION {[1..n -> {0, 255}] : n \in 0..CHUNK_SIZE}

CryptoCall(op, key, other, data, iv, result) ==
    /\ cryptoCall' = [op |-> op, key |-> key, other |-> other, data |-> data, iv |-> iv,
                      result |-> result]
    /\ UNCHANGED <<transferVars, peerVars, speedCalc>>

\* decrypt(encrypted, key, iv) of { encrypted, iv } = encrypt(data, key).
EncryptDecrypt(key, data, iv) ==
    LET e == encrypt(data, key, iv) IN
    CryptoCall("decrypt", key, key, data, iv, decrypt(e.encrypted, key, e.iv))

\* The same with the key the peer gets: importKey(exportKey(key)).
ExportImportDecrypt(key, data, iv) ==
    LET e == encrypt(data, key, iv) IN
    CryptoCall("importKey", key, importKey(exportKey(key)), data, iv,
               decrypt(e.encrypted, importKey(exportKey(key)), e.iv))

\* The same with another key.
DecryptOtherKey(key, other, data, iv) ==
    LET e == encrypt(data, key, iv) IN
    /\ other # key
    /\ CryptoCall("otherKey", key, other, data, iv, decrypt(e.encrypted, other, e.iv))

\* One use per behaviour: the functions keep no state between calls.
NextCrypto ==
    /\ cryptoCall.op = ""
    /\ \/ \E key \in CryptoKeys, data \in Plaintexts, iv \in Nonces :
             EncryptDecrypt(key, data, iv)
       \/ \E key \in CryptoKeys, data \in Plaintexts, iv \in Nonces :
             ExportImportDecrypt(key, data, iv)
       \/ \E key \in CryptoKeys, other \in CryptoKeys, data \in Plaintexts, iv \in Nonces :
             DecryptOtherKey(key, other, data, iv)

SpecCrypto == Init /\ [][NextCrypto]_vars

----------------------------------------------------------------------------
\* PeerService: the connections map and the DataConnection objects of one
\* peer.  A DataConnection has the flag `open` that the library sets when
\* the data channel opens and clears when the connection closes; sent is the
\* sequence of messages handed to connection.send.  call is the invocation
\* of connectToPeer or connectWithFallback that created the connection (0
\* for an incoming connection), via tells which of them it was, timeout
\* tells whether that invocation's connection timer is armed, and scheduled
\* counts the setTimeout callbacks the connection's handlers have scheduled.

RemotePeers == {"B", "C"}
Messages == {"m1", "m2"}

\* this.connections.get(peerId): the connection's index, 0 for undefined.
ConnectionsGet(peerId) == IF peerId \in DOMAIN connections THEN connections[peerId] ELSE 0

\* The PeerService fields and the pending promises and timers, as one record.
Peer == [conns |-> conns, connections |-> connections, calls |-> connectCalls, timers |-> timers]

\* A DataConnection as peer.connect or peer.on('connection') hands it over.
NewConnection(peerId, call, via) ==
    [peer |-> peerId, open |-> FALSE, state |-> "connecting", sent |-> <<>>,
     call |-> call, via |-> via, timeout |-> call # 0, scheduled |-> 0]

\* setupConnection(connection): this.connections.set(peerId, connection),
\* before the connection has opened.
setupConnection(P, connection) ==
    [P EXCEPT !.conns = Append(@, connection),
              !.connections = FnSet(@, connection.peer, Len(P.conns) + 1)]

\* resolve() or reject() of the promise of invocation k.  A settled promise
\* stays as it is; the promise of a retry is chained to the promise of the
\* invocation that scheduled it by .then(resolve).catch(reject).
RECURSIVE Settle(_, _, _)
Settle(cs, k, outcome) ==
    IF k = 0 \/ cs[k].promise # "pending"
    THEN cs
    ELSE Settle([cs EXCEPT ![k].promise = outcome], cs[k].parent, outcome)

\* The promise executor of connectToPeer(peerId, retries), called by the user
\* (parent = 0) or by a retry timer of invocation parent.  The peer is open
\* and peerId is a valid id of another peer.
connectToPeer(P, peerId, retries, parent) ==
    LET k == Len(P.calls) + 1
        call == [peerId |-> peerId, retries |-> retries, parent |-> parent,
                 root |-> IF parent = 0 THEN k ELSE P.calls[parent].root,
                 via |-> "normal", promise |-> "pending"]
        P1 == [P EXCEPT !.calls = Append(@, call)]
    IN IF peerId \in DOMAIN P.connections
       THEN [P1 EXCEPT !.calls = Settle(@, k, "resolved")]
       ELSE setupConnection(P1, NewConnection(peerId, k, "normal"))

\* The promise executor of connectWithFallback(peerId), called by the
\* fallback timer of invocation parent.
connectWithFallback(P, peerId, parent) ==
    LET k == Len(P.calls) + 1
        call == [peerId |-> peerId, retries |-> 0, parent |-> parent,
                 root |-> P.calls[parent].root,
                 via |-> "fallback", promise |-> "pending"]
    IN setupConnection([P EXCEPT !.calls = Append(@, call)],
                       NewConnection(peerId, k, "fallback"))

\* setTimeout(() => this.connectToPeer(peerId, retries - 1)...) or
\* setTimeout(() => this.connectWithFallback(peerId)...) in a handler of
\* connection c.
Schedule(P, c, kind) ==
    [P EXCEPT !.timers = Append(@, [kind |-> kind, peerId |-> P.conns[c].peer,
                                    retries |-> P.calls[P.conns[c].call].retries - 1,
                                    parent |-> P.conns[c].call]),
              !.conns[c].scheduled = @ + 1]

\* The 'open' handlers of connection c: connectToPeer's and
\* connectWithFallback's clear the timer and resolve.
OnOpen(P, c) ==
    IF P.conns[c].call = 0
    THEN P
    ELSE [P EXCEPT !.conns[c].timeout = FALSE,
                   !.calls = Settle(@, P.conns[c].call, "resolved")]

\* The 'close' handlers of connection c: setupConnection's deletes the map
\* entry of the peer id, then connectToPeer's clears the timer and retries
\* or rejects.  connectWithFallback registers no 'close' handler.
OnClose(P, c) ==
    LET P1 == [P EXCEPT !.connections = FnDelete(@, P.conns[c].peer)]
        P2 == [P1 EXCEPT !.conns[c].timeout = FALSE]
    IN IF P.conns[c].via # "normal"
       THEN P1
       ELSE IF P.calls[P.conns[c].call].retries > 1
       THEN Schedule(P2, c, "retry")
       ELSE [P2 EXCEPT !.calls = Settle(@, P.conns[c].call, "rejected")]

\* The 'error' handlers of connection c: setupConnection's deletes the map
\* entry of the peer id, then connectToPeer's clears the timer and retries,
\* falls back or rejects; connectWithFallback's clears the timer and rejects.
\* negotiation: error.message includes 'Negotiation'.
OnError(P, c, negotiation) ==
    LET P1 == [P EXCEPT !.connections = FnDelete(@, P.conns[c].peer)]
        P2 == [P1 EXCEPT !.conns[c].timeout = FALSE]
        retries == P.calls[P.conns[c].call].retries
    IN IF P.conns[c].via = "incoming"
       THEN P1
       ELSE IF P.conns[c].via = "fallback"
       THEN [P2 EXCEPT !.calls = Settle(@, P.conns[c].call, "rejected")]
       ELSE IF negotiation /\ retries > 1
       THEN Schedule(P2, c, "retry")
       ELSE IF negotiation /\ retries = 1
       THEN Schedule(P2, c, "fallback")
       ELSE [P2 EXCEPT !.calls = Settle(@, P.conns[c].call, "rejected")]

\* The timeout callback of the invocation that created connection c:
\* connection.close(), then a retry or reject.  The timer is armed only
\* while the connection has not opened, so close() emits no 'close'.
OnTimeout(P, c) ==
    LET P1 == [P EXCEPT !.conns[c].timeout = FALSE, !.conns[c].state = "closed"]
    IN IF P.conns[c].via = "normal" /\ P.calls[P.conns[c].call].retries > 1
       THEN Schedule(P1, c, "retry")
       ELSE [P1 EXCEPT !.calls = Settle(@, P.conns[c].call, "rejected")]

\* connection.close() of the library: a connection that is open emits
\* 'close', one that has not opened or is closed already emits nothing.
CloseConnection(P, c) ==
    LET P1 == [P EXCEPT !.conns[c].open = FALSE, !.conns[c].state = "closed"]
    IN IF P.conns[c].open THEN OnClose(P1, c) ELSE P1

\* Writes the record back into the variables.
PeerCommit(P) ==
    /\ conns' = P.conns
    /\ connections' = P.connections
    /\ connectCalls' = P.calls
    /\ timers' = P.timers

\* The number of connectToPeer calls the user has made.
UserCalls == Cardinality({k \in DOMAIN connectCalls : connectCalls[k].parent = 0})

\* peer.on('connection'): setupConnection for an incoming connection.
SetupConnection(peerId) ==
    /\ Len(conns) < MaxConns
    /\ PeerCommit(setupConnection(Peer, NewConnection(peerId, 0, "incoming")))
    /\ UNCHANGED <<quiet, lastSend, transferVars, pureVars>>

\* The user calls connectToPeer(peerId), retries = 3.
ConnectToPeer(peerId) ==
    /\ UserCalls < MaxUserCalls
    /\ Len(connectCalls) < MaxCalls
    /\ Len(conns) < MaxConns
    /\ PeerCommit(connectToPeer(Peer, peerId, 3, 0))
    /\ quiet' = quiet \ {peerId}
    /\ UNCHANGED <<lastSend, transferVars, pureVars>>

\* A retry timer or the fallback timer fires.
TimerFires(n) ==
    /\ n \in DOMAIN timers
    /\ Len(connectCalls) < MaxCalls
    /\ Len(conns) < MaxConns
    /\ LET t == timers[n]
           P == [Peer EXCEPT !.timers = [j \in 1..(Len(timers) - 1) |->
                                            IF j < n THEN timers[j] ELSE timers[j + 1]]]
       IN PeerCommit(IF t.kind = "retry"
                     THEN connectToPeer(P, t.peerId, t.retries, t.parent)
                     ELSE connectWithFallback(P, t.peerId, t.parent))
    /\ UNCHANGED <<quiet, lastSend, transferVars, pureVars>>

\* The connection timer of the invocation that created connection c fires.
ConnectionTimeout(c) ==
    /\ c \in DOMAIN conns
    /\ conns[c].timeout
    /\ PeerCommit(OnTimeout(Peer, c))
    /\ UNCHANGED <<quiet, lastSend, transferVars, pureVars>>

\* connection.on('open'): the library has set connection.open.
ConnectionOpen(c) ==
    /\ c \in DOMAIN conns
    /\ conns[c].state = "connecting"
    /\ PeerCommit(OnOpen([Peer EXCEPT !.conns[c].open = TRUE, !.conns[c].state = "open"], c))
    /\ UNCHANGED <<quiet, lastSend, transferVars, pureVars>>

\* connection.on('close'): the remote side has closed an open connection.
ConnectionClose(c) ==
    /\ c \in DOMAIN conns
    /\ conns[c].state = "open"
    /\ PeerCommit(CloseConnection(Peer, c))
    /\ quiet' = quiet \cup {conns[c].peer}
    /\ UNCHANGED <<lastSend, transferVars, pureVars>>

\* connection.on('error').  After a negotiation failure the library closes
\* the connection in the same callback; after another error the connection
\* is left as it is.
ConnectionError(c, negotiation) ==
    /\ c \in DOMAIN conns
    /\ conns[c].state # "closed"
    /\ PeerCommit(IF negotiation
                  THEN CloseConnection(OnError(Peer, c, TRUE), c)
                  ELSE OnError(Peer, c, FALSE))
    /\ UNCHANGED <<quiet, lastSend, transferVars, pureVars>>

\* disconnect(peerId): closes the registered connection and deletes the entry.
Disconnect(peerId) ==
    /\ ConnectionsGet(peerId) # 0
    /\ PeerCommit([CloseConnection(Peer, ConnectionsGet(peerId))
                      EXCEPT !.connections = FnDelete(@, peerId)])
    /\ quiet' = quiet \cup {peerId}
    /\ UNCHANGED <<lastSend, transferVars, pureVars>>

\* Mutant of sendData: connection.open is not tested.
sendData_ignoresOpen(cs, c, data) ==
    IF c # 0
    THEN [conns |-> [cs EXCEPT ![c].sent = Append(@, data)], result |-> TRUE]
    ELSE [conns |-> cs, result |-> FALSE]

\* sendData with c = this.connections.get(peerId).
sendData(cs, c, data) ==
    IF c # 0 /\ cs[c].open
    THEN [conns |-> [cs EXCEPT ![c].sent = Append(@, data)], result |-> TRUE]
    ELSE [conns |-> cs, result |-> FALSE]

SendData(peerId, data) ==
    /\ lastSend.n < MaxSends
    /\ LET res == sendData(conns, ConnectionsGet(peerId), data) IN
       /\ conns' = res.conns
       /\ lastSend' = [n |-> lastSend.n + 1, peerId |-> peerId, data |-> data,
                       result |-> res.result]
    /\ UNCHANGED <<connections, connectCalls, timers, quiet, transferVars, pureVars>>

\* Incoming connections, their events, disconnect and sendData.
NextPeer ==
    \/ \E peerId \in RemotePeers : SetupConnection(peerId)
    \/ \E c \in 1..MaxConns : ConnectionOpen(c)
    \/ \E c \in 1..MaxConns : ConnectionClose(c)
    \/ \E c \in 1..MaxConns, negotiation \in BOOLEAN : ConnectionError(c, negotiation)
    \/ \E peerId \in RemotePeers : Disconnect(peerId)
    \/ \E peerId \in RemotePeers, data \in Messages : SendData(peerId, data)

SpecPeer == Init /\ [][NextPeer]_vars

\* connectToPeer with its timers, next to incoming connections, the events
\* of the connections and disconnect.
NextConnect ==
    \/ \E peerId \in RemotePeers : ConnectToPeer(peerId)
    \/ \E n \in 1..MaxCalls : TimerFires(n)
    \/ \E c \in 1..MaxConns : ConnectionTimeout(c)
    \/ \E peerId \in RemotePeers : SetupConnection(peerId)
    \/ \E c \in 1..MaxConns : ConnectionOpen(c)
    \/ \E c \in 1..MaxConns : ConnectionClose(c)
    \/ \E c \in 1..MaxConns, negotiation \in BOOLEAN : ConnectionError(c, negotiation)
    \/ \E peerId \in RemotePeers : Disconnect(peerId)

SpecConnect == Init /\ [][NextConnect]_vars

----------------------------------------------------------------------------
\* Properties.

\* C1: the messages one sendFileChunks call hands to sendDataFunction are
\* one transfer-start followed only by file-chunk messages of the same
\* transfer with chunkIndex 0, 1, 2, ... without gap or repeat.
C1_AscendingChunks ==
    \A p \in Peers : \A r \in DOMAIN sendLoops[p] :
        LET L == sendLoops[p][r] IN
        \A n \in 1..Len(L.log) :
            /\ L.log[n].transferId = L.transferId
            /\ IF n = 1
               THEN L.log[n].type = "transfer-start"
               ELSE L.log[n].type = "file-chunk" /\ L.log[n].chunkIndex = n - 2

\* A call that has handed transfer-start, chunk 0 and chunk 1 to sendDataFunction.
C1_Witness ==
    \E p \in Peers : \E r \in DOMAIN sendLoops[p] : Len(sendLoops[p][r].log) >= 3

\* The plaintexts of the file-chunk messages of a log, in the order handed over.
RECURSIVE Payloads(_)
Payloads(log) ==
    IF log = <<>> THEN <<>>
    ELSE IF Head(log).type = "file-chunk"
         THEN Head(log).encryptedData.plain \o Payloads(Tail(log))
         ELSE Payloads(Tail(log))

ChunkCount(log) == Cardinality({n \in 1..Len(log) : log[n].type = "file-chunk"})

\* ceil(S / C) as the least n with n * C >= S.
CeilDiv(S, C) == CHOOSE n \in 0..S : n * C >= S /\ (n = 0 \/ (n - 1) * C < S)

\* The receiver is at rest: nothing left in its channel, no handler suspended.
AtRest(p) == chan[p] = <<>> /\ handlers[p] = <<>>

\* C2: when the messages of an honest sender (transfer-start, then all the
\* chunks) have been delivered once and in order and every handler of the
\* receiver has run to its end, in whatever interleaving, the receiver's
\* transfer is completed and the bytes handed to downloadFile are the file.
C2_HonestTransferCompletes ==
    \A r \in DOMAIN sendLoops["A"] :
        LET L == sendLoops["A"][r]
            t == heap["A"][r]
        IN (L.pc = "done" /\ t.status = "completed" /\ t.size > 0 /\ AtRest("B")) =>
              \E rb \in DOMAIN heap["B"] :
                  /\ heap["B"][rb].id = t.id
                  /\ heap["B"][rb].status = "completed"
                  /\ \E n \in DOMAIN downloads["B"] :
                        downloads["B"][n] = [ref |-> rb, bytes |-> t.bytes]

\* C3: chunk i carries exactly the bytes [i*C, min(S, (i+1)*C)) of the file,
\* every chunk but the one that reaches the end of the file has length C,
\* isLastChunk is set on that one only, and the payloads of a send that has
\* handed over all its chunks, taken in order, are the file.
C3_ChunksPartitionFile ==
    \A p \in Peers : \A r \in DOMAIN sendLoops[p] :
        LET L == sendLoops[p][r]
            t == heap[p][r]
        IN /\ \A n \in 2..Len(L.log) :
                LET m == L.log[n]
                    lo == m.chunkIndex * CHUNK_SIZE
                    hi == Min(t.size, lo + CHUNK_SIZE)
                IN /\ m.encryptedData.plain = [j \in 1..(hi - lo) |-> t.bytes[lo + j]]
                   /\ m.isLastChunk <=> (lo + CHUNK_SIZE >= t.size)
                   /\ ~m.isLastChunk => Len(m.encryptedData.plain) = CHUNK_SIZE
                   /\ Len(m.encryptedData.plain) > 0
           /\ (L.pc = "done" /\ ChunkCount(L.log) = L.totalChunks) =>
                 Payloads(L.log) = t.bytes

\* A send that has handed over all the chunks of a file whose last chunk is
\* shorter than CHUNK_SIZE.
C3_Witness ==
    \E p \in Peers : \E r \in DOMAIN sendLoops[p] :
        /\ sendLoops[p][r].pc = "done"
        /\ ChunkCount(sendLoops[p][r].log) = sendLoops[p][r].totalChunks
        /\ ChunkCount(sendLoops[p][r].log) >= 2
        /\ heap[p][r].size % CHUNK_SIZE # 0

\* C4: sender and receiver both take totalChunks = ceil(S / CHUNK_SIZE), and
\* a file of size 0 is sent as exactly one zero-length chunk with isLastChunk
\* set, so that its receiver completes too.
C4_EmptyFileIsOneChunk ==
    \A r \in DOMAIN sendLoops["A"] :
        LET L == sendLoops["A"][r]
            t == heap["A"][r]
        IN /\ L.totalChunks = CeilDiv(t.size, CHUNK_SIZE)
           /\ \A rb \in DOMAIN heap["B"] :
                 heap["B"][rb].id = t.id =>
                    TotalChunks(heap["B"][rb].size) = CeilDiv(t.size, CHUNK_SIZE)
           /\ (t.size = 0 /\ L.pc = "done") =>
                 /\ ChunkCount(L.log) = 1
                 /\ L.log[2].encryptedData.plain = <<>>
                 /\ L.log[2].isLastChunk
           /\ (t.size = 0 /\ L.pc = "done" /\ AtRest("B")) =>
                 \E rb \in DOMAIN heap["B"] :
                    heap["B"][rb].id = t.id /\ heap["B"][rb].status = "completed"

\* C5: when a chunk resolved to a transfer fails decryption or its checksum,
\* the transfer becomes failed, its error callback is invoked and nothing
\* is stored in a ChunkBuffer, also when the transfer was found by fallback.
C5_ChunkFailureReported ==
    [][last'.op \in {"chunk:decrypt-failed", "chunk:checksum-failed"} =>
          /\ heap'[last'.peer][last'.ref].status = "failed"
          /\ \E n \in DOMAIN last'.calls :
                last'.calls[n].cb = "onError" /\ last'.calls[n].ref = last'.ref
          /\ receivedChunks' = receivedChunks]_vars

ChunkOps == {"chunk:decrypt-failed", "chunk:checksum-failed", "chunk:stored",
             "chunk:completed", "chunk:reconstruct-failed"}

\* C6: a file-chunk that arrives after its transfer has failed on a
\* decryption or checksum error changes neither the transfer (status,
\* progress) nor any ChunkBuffer, and invokes no callback.
C6_NoProcessingAfterFailure ==
    [][(last'.op \in ChunkOps /\ last'.late) =>
          /\ heap'[last'.peer][last'.ref] = heap[last'.peer][last'.ref]
          /\ receivedChunks' = receivedChunks
          /\ last'.calls = <<>>]_vars

\* C7: a step that names the id of transfer A (a failure of A, a cancel of A,
\* an inbound chunk with A's id, A registered or not any more) leaves the
\* registry entry of every other registered transfer B as it was: its key,
\* its id, its status, its progress and its ChunkBuffer.
C7_OtherTransfersUntouched ==
    [][\A p \in Peers : \A n \in DOMAIN activeTransfers[p] :
          LET kb == activeTransfers[p][n].key
              rb == activeTransfers[p][n].ref
              a == last'.id
          IN (/\ last'.peer = p
              /\ last'.op \in ChunkOps \cup {"cancelTransfer", "inject:file-chunk",
                                             "deliver:file-chunk"}
              /\ kb # a
              /\ \E ra \in DOMAIN heap[p] : ra # rb /\ heap[p][ra].id = a)
             => /\ MapGet(activeTransfers'[p], kb) = rb
                /\ heap'[p][rb] = heap[p][rb]
                /\ (kb \in DOMAIN receivedChunks[p] =>
                       /\ kb \in DOMAIN receivedChunks'[p]
                       /\ receivedChunks'[p][kb] = receivedChunks[p][kb])]_vars

StatusEdges ==
    {<<"pending", "transferring">>, <<"transferring", "paused">>,
     <<"paused", "transferring">>, <<"transferring", "completed">>,
     <<"transferring", "failed">>, <<"paused", "failed">>}

\* C8: every status change of a transfer follows an edge of the state
\* machine; completed and failed are never left.
C8_StatusFollowsEdges ==
    [][\A p \in Peers : \A r \in DOMAIN heap[p] :
          heap'[p][r].status # heap[p][r].status =>
             <<heap[p][r].status, heap'[p][r].status>> \in StatusEdges]_vars

\* C9: after cancelTransfer the running send loop hands at most the one
\* chunk already in flight to sendDataFunction, and no later chunk.
C9_CancelStopsLoop ==
    \A p \in Peers : \A r \in DOMAIN sendLoops[p] :
        sendLoops[p][r].cancelAt # -1 =>
            ChunkCount(sendLoops[p][r].log) <= sendLoops[p][r].cancelAt + 1

\* C10: cancelTransfer marks the transfer failed and leaves no entry for its
\* id in activeTransfers, transferCallbacks or receivedChunks.
C10_CancelRemovesAll ==
    last.op = "cancelTransfer" =>
        /\ heap[last.peer][last.ref].status = "failed"
        /\ ~MapHas(activeTransfers[last.peer], last.id)
        /\ last.id \notin transferCallbacks[last.peer]
        /\ last.id \notin DOMAIN receivedChunks[last.peer]

\* The operations of a step in which a file-chunk message reaches onData.
ChunkArrivals == {"inject:file-chunk", "inject:orphan-chunk",
                  "deliver:file-chunk", "deliver:orphan-chunk"}

\* Transfer id a was cancelled at p and is not registered: cancelTransfer is
\* the only code that sets failed without going through handleTransferError.
Cancelled(p, a) ==
    /\ ~MapHas(activeTransfers[p], a)
    /\ \E r \in DOMAIN heap[p] :
          /\ heap[p][r].id = a
          /\ heap[p][r].status = "failed"
          /\ heap[p][r].failedBy = ""

\* C11: a file-chunk that carries the id of a cancelled transfer is dropped:
\* no handler goes on to decrypt it, and no transfer, registry entry or
\* ChunkBuffer changes, whatever other transfers are registered.
C11_CancelledIdIsOrphan ==
    [][(last'.op \in ChunkArrivals /\ Cancelled(last'.peer, last'.id)) =>
          /\ last'.op \in {"inject:orphan-chunk", "deliver:orphan-chunk"}
          /\ handlers' = handlers
          /\ heap' = heap
          /\ activeTransfers' = activeTransfers
          /\ receivedChunks' = receivedChunks]_vars

\* C12: while a sender transfer stays paused, a message its send loop hands
\* to sendDataFunction (the one in flight when pauseTransfer ran) is the
\* loop's last: the loop leaves at its next check, and a loop that has left
\* sends nothing more.
C12_PauseStopsLoop ==
    [][\A p \in Peers : \A r \in DOMAIN sendLoops[p] :
          LET L == sendLoops[p][r]
              L1 == sendLoops'[p][r]
          IN /\ (/\ heap[p][r].status = "paused"
                 /\ heap'[p][r].status = "paused"
                 /\ Len(L1.log) > Len(L.log)) => L1.pc = "done"
             /\ L.pc = "done" => L1.log = L.log]_vars

\* A loop that was paused while a chunk was in flight, has sent that chunk
\* and has left with chunks of the file unsent.
C12_Witness ==
    \E p \in Peers : \E r \in DOMAIN sendLoops[p] :
        /\ last.op = "sendChunk" /\ last.peer = p /\ last.ref = r
        /\ heap[p][r].status = "paused"
        /\ sendLoops[p][r].pc = "done"
        /\ sendLoops[p][r].i < sendLoops[p][r].totalChunks

\* C13: after resumeTransfer has set a sender transfer that was paused
\* before its last chunk back to transferring, the sender eventually hands all the remaining chunks to
\* sendDataFunction and the transfer is completed (or the user pauses it
\* again), when sendDataFunction accepts every message and nobody cancels.
C13_ResumeCompletes ==
    \A r \in 1..MaxTransfers :
        (/\ last.op = "resumeTransfer" /\ last.peer = "A" /\ last.ref = r
         /\ r \in DOMAIN sendLoops["A"]
         /\ sendLoops["A"][r].i < sendLoops["A"][r].totalChunks)
        ~> (/\ r \in DOMAIN sendLoops["A"]
            /\ \/ heap["A"][r].status = "paused"
               \/ /\ heap["A"][r].status = "completed"
                  /\ ChunkCount(sendLoops["A"][r].log) = sendLoops["A"][r].totalChunks)

\* C14: in every state and for every id, pauseTransfer(id) sets the status
\* of the transfer registered under id to paused when that status is
\* transferring, and changes nothing else; for an id that is not registered
\* or a transfer in another status it changes nothing at all.
C14_PauseOnlyFromTransferring ==
    \A p \in Peers : \A id \in AllIds :
        LET S == Svc(p)
            r == MapGet(S.active, id)
        IN IF r # 0 /\ S.heap[r].status = "transferring"
           THEN pauseTransfer(S, id) = [S EXCEPT !.heap[r].status = "paused"]
           ELSE pauseTransfer(S, id) = S

\* pauseTransfer has just paused a transfer while another registered transfer
\* is in a status it leaves alone.
C14_Witness ==
    /\ last.op = "pauseTransfer"
    /\ heap[last.peer][last.ref].status = "paused"
    /\ \E n \in DOMAIN activeTransfers[last.peer] :
          heap[last.peer][activeTransfers[last.peer][n].ref].status
             \in {"pending", "completed", "failed"}

\* C15: in every state and for every id, resumeTransfer(id) sets the status
\* of the transfer registered under id to transferring when that status is
\* paused, and changes nothing else; for an id that is not registered or a
\* transfer in another status it changes nothing at all.
C15_ResumeOnlyFromPaused ==
    \A p \in Peers : \A id \in AllIds :
        LET S == Svc(p)
            r == MapGet(S.active, id)
        IN IF r # 0 /\ S.heap[r].status = "paused"
           THEN resumeTransfer(S, id) = [S EXCEPT !.heap[r].status = "transferring"]
           ELSE resumeTransfer(S, id) = S

\* resumeTransfer has just resumed a transfer while another registered
\* transfer is in a status it leaves alone.
C15_Witness ==
    /\ last.op = "resumeTransfer"
    /\ heap[last.peer][last.ref].status = "transferring"
    /\ \E n \in DOMAIN activeTransfers[last.peer] :
          heap[last.peer][activeTransfers[last.peer][n].ref].status
             \in {"pending", "completed", "failed"}

\* The number of times the step into the primed state invoked callback cb
\* for the transfer object ref.
CallsOf(calls, cb, ref) ==
    Cardinality({n \in DOMAIN calls : calls[n].cb = cb /\ calls[n].ref = ref})

\* C16: when sendDataFunction returns false for the transfer-start or for a
\* chunk, the transfer is failed, its error callback is invoked exactly
\* once, the loop stops, and a loop that has stopped hands over no further
\* message.
C16_SendFailureFails ==
    [][\A r \in DOMAIN sendLoops["A"] :
          LET L == sendLoops["A"][r]
              L1 == sendLoops'["A"][r]
          IN /\ (/\ Len(L1.results) > Len(L.results)
                 /\ ~L1.results[Len(L1.results)])
                => /\ heap'["A"][r].status = "failed"
                   /\ CallsOf(last'.calls, "onError", r) = 1
                   /\ L1.pc = "done"
             /\ L.pc = "done" => L1.log = L.log]_vars

\* C17: a sender transfer is completed only when its loop has run to the
\* end with every chunk 0..totalChunks-1 accepted by sendDataFunction and no
\* cancel; onComplete is invoked exactly once in the step that completes it
\* and in no other step.
C17_CompletedOnlyAfterAllChunks ==
    [][\A r \in DOMAIN sendLoops'["A"] :
          LET L1 == sendLoops'["A"][r]
              completes == /\ heap'["A"][r].status = "completed"
                           /\ heap["A"][r].status # "completed"
          IN /\ heap'["A"][r].status = "completed" =>
                   /\ L1.pc = "done"
                   /\ ChunkCount(L1.log) = L1.totalChunks
                   /\ \A n \in 1..Len(L1.results) : L1.results[n]
                   /\ L1.cancelAt = -1
             /\ completes => CallsOf(last'.calls, "onComplete", r) = 1
             /\ (last' # last /\ ~completes) => CallsOf(last'.calls, "onComplete", r) = 0]_vars

\* The positions in p's registry of the transfers the fallback may stand in
\* for an unknown id: transferring, and no chunk buffered under their own id.
FallbackCandidates(p) ==
    {n \in DOMAIN activeTransfers[p] :
        /\ heap[p][activeTransfers[p][n].ref].status = "transferring"
        /\ activeTransfers[p][n].key \notin DOMAIN receivedChunks[p]}

\* C18: a file-chunk whose id is not registered re-keys a transfer only when
\* exactly one registered transfer is transferring with no chunk buffered
\* under its own id, and then that transfer; with several such transfers, or
\* with transferring transfers that hold chunks, nothing is re-keyed.
C18_FallbackNeedsOneCandidate ==
    [][(/\ last'.op \in ChunkArrivals
        /\ ~MapHas(activeTransfers[last'.peer], last'.id)
        /\ <<activeTransfers', heap'>> # <<activeTransfers, heap>>)
       => LET p == last'.peer IN
          /\ Cardinality(FallbackCandidates(p)) = 1
          /\ \A n \in FallbackCandidates(p) :
                /\ last'.ref = activeTransfers[p][n].ref
                /\ MapGet(activeTransfers'[p], last'.id) = activeTransfers[p][n].ref]_vars

MissingIndex(chunks, totalChunks) ==
    \E i \in 0..(totalChunks - 1) : i + 1 > Len(chunks) \/ ~chunks[i + 1].present

\* C20: when the chunk flagged isLastChunk has been stored and some index of
\* [0, totalChunks) has no chunk in the transfer's ChunkBuffer,
\* reconstructFile fails; and a failed reconstruction marks the transfer
\* failed, invokes its error callback and hands nothing to downloadFile.
C20_IncompleteBufferFails ==
    [][/\ (last'.op = "chunk:stored" /\ Len(handlers'[last'.peer]) = Len(handlers[last'.peer]))
          => \A h \in DOMAIN handlers[last'.peer] :
                LET H == handlers[last'.peer][h]
                    H1 == handlers'[last'.peer][h]
                IN (H.pc = "decrypt" /\ H1.pc = "reconstruct") =>
                     (MissingIndex(receivedChunks'[last'.peer][H.msg.transferId],
                                   TotalChunks(heap'[last'.peer][H.transfer].size))
                        => ~H1.result.ok)
       /\ last'.op = "chunk:reconstruct-failed"
          => /\ heap'[last'.peer][last'.ref].status = "failed"
             /\ CallsOf(last'.calls, "onError", last'.ref) = 1
             /\ downloads' = downloads]_vars

\* The chunks stored at indexes 0..n-1 of the array, joined in index order.
RECURSIVE InIndexOrder(_, _)
InIndexOrder(chunks, n) ==
    IF n = 0 THEN <<>>
    ELSE InIndexOrder(chunks, n - 1) \o (IF chunks[n].present THEN chunks[n].bytes ELSE <<>>)

\* C21: when the chunk flagged isLastChunk has been stored and every index
\* of [0, totalChunks) has a chunk in the transfer's ChunkBuffer, the file is
\* assembled from the buffer in index order; the handler then hands that file
\* to downloadFile, sets the transfer completed, invokes its completion
\* callback once and removes the ChunkBuffer.
C21_LastChunkAssemblesFile ==
    [][\A h \in DOMAIN handlers[last'.peer] :
          LET p == last'.peer
              H == handlers[p][h]
              id == H.msg.transferId
          IN /\ (/\ last'.op = "chunk:stored"
                 /\ Len(handlers'[p]) = Len(handlers[p])
                 /\ H.pc = "decrypt"
                 /\ handlers'[p][h].pc = "reconstruct"
                 /\ ~MissingIndex(receivedChunks'[p][id], TotalChunks(heap'[p][H.transfer].size)))
                => /\ handlers'[p][h].result.ok
                   /\ handlers'[p][h].result.bytes =
                         InIndexOrder(receivedChunks'[p][id], Len(receivedChunks'[p][id]))
             /\ (/\ last'.op \in {"chunk:completed", "chunk:reconstruct-failed"}
                 /\ Len(handlers'[p]) < Len(handlers[p])
                 /\ H.pc = "reconstruct"
                 /\ H.result.ok
                 /\ \A g \in DOMAIN handlers'[p] :
                       handlers'[p][g] = handlers[p][IF g < h THEN g ELSE g + 1])
                => /\ downloads'[p] = Append(downloads[p],
                                              [ref |-> H.transfer, bytes |-> H.result.bytes])
                   /\ heap'[p][H.transfer].status = "completed"
                   /\ CallsOf(last'.calls, "onComplete", H.transfer) = 1
                   /\ id \notin DOMAIN receivedChunks'[p]]_vars

\* The number of files handed to downloadFile for the transfer object ref.
DownloadsOf(log, ref) == Cardinality({n \in DOMAIN log : log[n].ref = ref})

\* C22: whatever file-chunk messages arrive, the file of a receiver transfer
\* is handed to downloadFile at most once, and its completion callback is
\* not invoked again once the file has been handed over.
C22_ReconstructedAtMostOnce ==
    [][\A r \in DOMAIN heap'["B"] :
          /\ DownloadsOf(downloads'["B"], r) <= 1
          /\ (/\ last' # last
              /\ last'.peer = "B"
              /\ CallsOf(last'.calls, "onComplete", r) >= 1)
                => /\ CallsOf(last'.calls, "onComplete", r) = 1
                   /\ DownloadsOf(downloads["B"], r) = 0]_vars

\* C23: the progress of every transfer, of the sender and of the receiver,
\* lies in [0, 100].
C23_ProgressInRange ==
    \A p \in Peers : \A r \in DOMAIN heap[p] :
        heap[p][r].progress >= 0 /\ heap[p][r].progress <= 100

C25_ProgressFrozenWhilePaused ==
    [][\A p \in Peers : \A r \in DOMAIN heap[p] :
          (heap[p][r].status = "paused" /\ heap'[p][r].status = "paused")
            => heap'[p][r].progress = heap[p][r].progress]_vars

\* C26: the speed written to a transfer is never negative, and it is 0 when
\* the elapsed time is zero or negative.
C26_SpeedNonNegative ==
    /\ speedCalc.speed >= 0
    /\ speedCalc.now - speedCalc.startTime <= 0 => speedCalc.speed = 0

\* C27: in every peer's registry each key occurs once, the transfer stored
\* under a key has that key as its id, and no transfer is stored under two
\* keys.
C27_RegistryKeyedById ==
    \A p \in Peers : \A n \in DOMAIN activeTransfers[p] :
        /\ heap[p][activeTransfers[p][n].ref].id = activeTransfers[p][n].key
        /\ \A m \in DOMAIN activeTransfers[p] :
              m # n => /\ activeTransfers[p][m].key # activeTransfers[p][n].key
                       /\ activeTransfers[p][m].ref # activeTransfers[p][n].ref

\* The receiver's registry holds a transfer that the fallback re-keyed to
\* id 0, after registerIncomingTransfer replaced a transfer object that is
\* still transferring.
C27_Witness ==
    /\ MapHas(activeTransfers["B"], 0)
    /\ \E r \in DOMAIN heap["B"] :
          /\ \A m \in DOMAIN activeTransfers["B"] : activeTransfers["B"][m].ref # r
          /\ heap["B"][r].status = "transferring"

\* C28: startFileTransfer creates a transfer with status pending and
\* progress 0 and registers it under its id; the transfer-start handler
\* creates the receiver's transfer with status transferring and registers
\* it under the transferId of the message; a receiver transfer is never
\* pending.
C28_CreationStatus ==
    [][LET p == last'.peer
           r == last'.ref
       IN /\ (last' # last /\ last'.op = "startFileTransfer")
             => /\ Len(heap'[p]) = Len(heap[p]) + 1
                /\ r = Len(heap'[p])
                /\ heap'[p][r].status = "pending"
                /\ heap'[p][r].progress = 0
                /\ heap'[p][r].id = last'.id
                /\ MapGet(activeTransfers'[p], last'.id) = r
          /\ (last' # last /\ last'.op = "registerIncomingTransfer")
             => /\ Len(heap'[p]) = Len(heap[p]) + 1
                /\ r = Len(heap'[p])
                /\ heap'[p][r].status = "transferring"
                /\ heap'[p][r].id = last'.id
                /\ MapGet(activeTransfers'[p], last'.id) = r
                /\ \E h \in DOMAIN handlers[p] :
                      /\ handlers[p][h].kind = "start"
                      /\ handlers[p][h].msg.transferId = last'.id
          /\ \A b \in DOMAIN heap'["B"] : heap'["B"][b].status # "pending"]_vars

\* The receiver has just registered an incoming transfer while the sender
\* holds a transfer it has created and not yet begun to send.
C28_Witness ==
    /\ last.op = "registerIncomingTransfer"
    /\ last.peer = "B"
    /\ heap["B"][last.ref].status = "transferring"
    /\ \E r \in DOMAIN heap["A"] : heap["A"][r].status = "pending"

\* C29: a registered transfer that failed on a send, a decryption, a
\* checksum or a reconstruction is still registered under the same id, and
\* still failed, after every step other than cancelTransfer of that id.
C29_FailedStaysUntilCancel ==
    [][\A p \in Peers : \A n \in DOMAIN activeTransfers[p] :
          LET key == activeTransfers[p][n].key
              r == activeTransfers[p][n].ref
          IN (/\ heap[p][r].status = "failed"
              /\ heap[p][r].failedBy \in {"send", "decrypt", "checksum", "reconstruct"}
              /\ ~(last'.op = "cancelTransfer" /\ last'.peer = p /\ last'.id = key))
             => /\ MapGet(activeTransfers'[p], key) = r
                /\ heap'[p][r].status = "failed"]_vars

\* All messages handed to connection.send so far, over every connection.
SentCount == LET RECURSIVE Sum(_)
                 Sum(n) == IF n = 0 THEN 0 ELSE Sum(n - 1) + Len(conns[n].sent)
             IN Sum(Len(conns))

\* C30: sendData(peerId, data) returns true exactly when the connections map
\* has a connection for peerId and that connection is open; it then appends
\* data to what that connection was given to send and touches nothing else;
\* when it returns false no connection is given anything.
C30_SendDataIffOpen ==
    [][lastSend'.n # lastSend.n =>
         LET peerId == lastSend'.peerId
             registeredOpen == /\ peerId \in DOMAIN connections
                               /\ conns[connections[peerId]].open
         IN /\ lastSend'.result <=> registeredOpen
            /\ registeredOpen =>
                  /\ conns'[connections[peerId]].sent =
                        Append(conns[connections[peerId]].sent, lastSend'.data)
                  /\ \A c \in DOMAIN conns :
                        c # connections[peerId] => conns'[c] = conns[c]
            /\ ~lastSend'.result => conns' = conns
            /\ connections' = connections]_vars

\* sendData has just returned false for a peer whose registered connection
\* has not opened yet, after an earlier call handed a message to a connection.
C30_Witness ==
    /\ lastSend.n >= 2
    /\ ~lastSend.result
    /\ lastSend.peerId \in DOMAIN connections
    /\ ~conns[connections[lastSend.peerId]].open
    /\ SentCount >= 1

\* C31: decrypting what encrypt returned, with the same key and the nonce
\* encrypt returned, gives the plaintext back; so does decrypting with the
\* key that exportKey and importKey carried over; decrypting with another
\* key fails and returns no plaintext.
C31_CryptoRoundTrip ==
    /\ cryptoCall.op \in {"decrypt", "importKey"}
          => /\ cryptoCall.result.ok
             /\ cryptoCall.result.plain = cryptoCall.data
    /\ cryptoCall.op = "importKey" => cryptoCall.other = cryptoCall.key
    /\ cryptoCall.op = "otherKey"
          => /\ ~cryptoCall.result.ok
             /\ cryptoCall.result.plain = <<>>

\* A plaintext has been decrypted with a key whose bytes, above 127 and
\* below, went through exportKey and importKey.
C31_Witness ==
    /\ cryptoCall.op = "importKey"
    /\ cryptoCall.key[1] = 255
    /\ cryptoCall.key[KEY_LENGTH] = 1
    /\ cryptoCall.data # <<>>
    /\ cryptoCall.result.plain = cryptoCall.data

\* C32: on the ordered channel from an honest sender, where the
\* transfer-start of a transfer is delivered before its chunks, every
\* file-chunk delivered to the receiver is resolved by its own id to the
\* transfer that the transfer-start handler registered (the one holding the
\* key of that transfer): it is not dropped and not resolved by the fallback.
C32_ChunkFindsItsTransfer ==
    [][(/\ last' # last
        /\ last'.peer = "B"
        /\ last'.op \in {"deliver:file-chunk", "deliver:orphan-chunk"})
       => /\ last'.op = "deliver:file-chunk"
          /\ last'.ref # 0
          /\ MapGet(activeTransfers["B"], last'.id) = last'.ref
          /\ heap'["B"][last'.ref].id = last'.id
          /\ heap'["B"][last'.ref].encryptionKey = generateKey(last'.id)]_vars

\* C33: the step that completes a receiver transfer hands over a file whose
\* digest is the checksum its transfer-start announced.
C33_CompletedFileMatchesChecksum ==
    [][(/\ last' # last
        /\ last'.peer = "B"
        /\ last'.op = "chunk:completed")
       => /\ Len(downloads'["B"]) = Len(downloads["B"]) + 1
          /\ LET file == downloads'["B"][Len(downloads'["B"])] IN
             /\ file.ref = last'.ref
             /\ verifyChecksum(file.bytes, heap'["B"][last'.ref].checksum)]_vars

\* The call of sendFileChunks for transfer object r has returned.
Returned(r) == r \in DOMAIN sendLoops["A"] /\ sendLoops["A"][r].pc = "done"

C35_NoAttemptAfterDisconnect ==
    [][\A c \in DOMAIN conns' \ DOMAIN conns :
          (conns'[c].via # "incoming" /\ conns'[c].peer \in quiet)
             => connectCalls'[conns'[c].call].parent = 0]_vars

\* C36: the promise of a connectToPeer call of the user becomes resolved
\* only in a step that leaves a connection to its peer id open.
C36_ResolvesOnlyWhenOpen ==
    [][\A k \in DOMAIN connectCalls' :
          (/\ connectCalls'[k].parent = 0
           /\ connectCalls'[k].promise = "resolved"
           /\ (k \notin DOMAIN connectCalls \/ connectCalls[k].promise = "pending"))
             => \E c \in DOMAIN conns' :
                   conns'[c].peer = connectCalls'[k].peerId /\ conns'[c].open]_vars

\* The connections created on behalf of the user's call k through one path.
ConnectionsOf(k, via) ==
    {c \in DOMAIN conns : conns[c].via = via /\ connectCalls[conns[c].call].root = k}

\* C37: one connectToPeer call of the user creates at most 3 connections
\* through connectToPeer and at most one through connectWithFallback, and
\* the handlers of one connection schedule at most one retry.
C37_BoundedAttempts ==
    /\ \A k \in DOMAIN connectCalls :
          connectCalls[k].parent = 0
             => /\ Cardinality(ConnectionsOf(k, "normal")) <= 3
                /\ Cardinality(ConnectionsOf(k, "fallback")) <= 1
    /\ \A c \in DOMAIN conns : conns[c].scheduled <= 1

====
